---------------------------- MODULE Spec2Model ----------------------------
(* Model of the product reconciliation service (server + utils.js).        *)
(*                                                                          *)
(* JavaScript values are modelled as tagged records:                        *)
(*   [t |-> "null"]                  null / undefined                       *)
(*   [t |-> "str", s |-> <<chars>>]  a string, one 1-character string per   *)
(*                                   character                              *)
(*   [t |-> "num", q |-> [n, d]]     a number, as the reduced fraction n/d  *)
(* Numbers are exact rationals: binary floating-point rounding is not       *)
(* modelled.  All model inputs have few decimal digits, so the epsilon      *)
(* comparisons of the code (< 1e-9, < 1e-6) coincide with equality.         *)
EXTENDS Integers, Sequences, FiniteSets, TLC

VARIABLES
  call,        \* pure-function harness: the call being made (descriptor + arguments)
  ret,         \* pure-function harness: its return value, or NoRet
  wb,          \* the workbook: a sequence of worksheets, each a sequence of rows
  pc,          \* position of the /api/process-excel handler
  a2vs,        \* list of keys extracted from column Z
  queue,       \* scrapeMany: unique keys not yet started
  inflight,    \* scrapeMany: keys whose fetch is running
  results,     \* scrapeMany: key -> outcome map
  concurrency, \* scrapeMany: the limit it was called with
  wsIdx,       \* writer: index of the worksheet being processed
  products,    \* writer: candidate row indices of the current worksheet
  i,           \* writer: loop index into products (1-based; 0 = loop finished)
  run,         \* number of the current upload (1 = first)
  orig,        \* history: the workbook as uploaded in the current run
  submitted    \* history: number of fetches ever started in this run, per key

vars == <<call, ret, wb, pc, a2vs, queue, inflight, results, concurrency,
          wsIdx, products, i, run, orig, submitted>>

-----------------------------------------------------------------------------
(* Bounds of the model *)

MaxRows == 2
MaxSheets == 2
\* scrapeMany called on its own: length of the key list, largest limit
MaxKeys == 3
MaxConcurrency == 2

-----------------------------------------------------------------------------
(* JavaScript values *)

Null == [t |-> "null"]
Str(s) == [t |-> "str", s |-> s]
Num(q) == [t |-> "num", q |-> q]
Empty == Str(<<>>)

RECURSIVE Gcd(_, _)
Gcd(a, b) == IF b = 0 THEN a ELSE Gcd(b, a % b)

Abs(x) == IF x < 0 THEN -x ELSE x

\* the reduced fraction n/d, d > 0
Rat(n, d) ==
  LET g == Gcd(Abs(n), Abs(d))
      sgn == IF d < 0 THEN -1 ELSE 1
  IN  [n |-> sgn * (n \div g), d |-> sgn * (d \div g)]

Int2Rat(n) == [n |-> n, d |-> 1]
RatMul(a, b) == Rat(a.n * b.n, a.d * b.d)
RatDiv(a, b) == Rat(a.n * b.d, a.d * b.n)
RatSub(a, b) == Rat(a.n * b.d - b.n * a.d, a.d * b.d)
RatAbs(a) == [n |-> Abs(a.n), d |-> a.d]
RatLess(a, b) == a.n * b.d < b.n * a.d
RatLeq(a, b) == a.n * b.d <= b.n * a.d

\* Math.round: nearest integer, halves towards +infinity
MathRound(a) == (2 * a.n + a.d) \div (2 * a.d)

RECURSIVE Pow10(_)
Pow10(k) == IF k = 0 THEN 1 ELSE 10 * Pow10(k - 1)

-----------------------------------------------------------------------------
(* Characters and strings *)

DigitChars == <<"0", "1", "2", "3", "4", "5", "6", "7", "8", "9">>
Digits == {DigitChars[k] : k \in 1..10}
DigitVal(c) == (CHOOSE k \in 1..10 : DigitChars[k] = c) - 1

UpperChars == <<"A", "B", "C", "D", "E", "F", "G", "H", "I", "J", "K", "L", "M",
                "N", "O", "P", "Q", "R", "S", "T", "U", "V", "W", "X", "Y", "Z",
                "Δ">>
LowerChars == <<"a", "b", "c", "d", "e", "f", "g", "h", "i", "j", "k", "l", "m",
                "n", "o", "p", "q", "r", "s", "t", "u", "v", "w", "x", "y", "z",
                "δ">>
NLetters == Len(UpperChars)
AsciiLower == {LowerChars[k] : k \in 1..26}
AsciiUpper == {UpperChars[k] : k \in 1..26}

\* \s
IsSpace(c) == c \in {" ", "\t"}
\* \w
IsWord(c) == c \in AsciiLower \cup AsciiUpper \cup Digits \cup {"_"}

LowerChar(c) ==
  IF \E k \in 1..NLetters : UpperChars[k] = c
  THEN LowerChars[CHOOSE k \in 1..NLetters : UpperChars[k] = c]
  ELSE c
UpperChar(c) ==
  IF \E k \in 1..NLetters : LowerChars[k] = c
  THEN UpperChars[CHOOSE k \in 1..NLetters : LowerChars[k] = c]
  ELSE c

\* String.prototype.toLowerCase / toUpperCase
ToLowerCase(s) == [k \in 1..Len(s) |-> LowerChar(s[k])]
ToUpperCase(s) == [k \in 1..Len(s) |-> UpperChar(s[k])]

RECURSIVE TrimStart(_)
TrimStart(s) == IF s /= <<>> /\ IsSpace(Head(s)) THEN TrimStart(Tail(s)) ELSE s
RECURSIVE TrimEnd(_)
TrimEnd(s) ==
  IF s /= <<>> /\ IsSpace(s[Len(s)]) THEN TrimEnd(SubSeq(s, 1, Len(s) - 1)) ELSE s
\* String.prototype.trim
Trim(s) == TrimEnd(TrimStart(s))

\* s.replace(/\s+/g, '')
StripSpaces(s) == SelectSeq(s, LAMBDA c : ~IsSpace(c))

\* s.replace(/\s+/g, ' ')
RECURSIVE CollapseSpaces(_)
CollapseSpaces(s) ==
  IF s = <<>> THEN <<>>
  ELSE IF IsSpace(Head(s))
       THEN <<" ">> \o CollapseSpaces(TrimStart(s))
       ELSE <<Head(s)>> \o CollapseSpaces(Tail(s))

\* s.replace(',', '.'): a string pattern replaces the first occurrence only
ReplaceFirstComma(s) ==
  IF \E k \in 1..Len(s) : s[k] = ","
  THEN LET p == CHOOSE k \in 1..Len(s) : s[k] = "," /\ \A j \in 1..(k - 1) : s[j] /= ","
       IN  [k \in 1..Len(s) |-> IF k = p THEN "." ELSE s[k]]
  ELSE s

\* s.includes(t) / a regular expression that is a literal
Contains(s, t) ==
  \E p \in 1..(Len(s) - Len(t) + 1) : SubSeq(s, p, p + Len(t) - 1) = t
EndsWith(s, t) ==
  Len(s) >= Len(t) /\ SubSeq(s, Len(s) - Len(t) + 1, Len(s)) = t
StartsWith(s, t) ==
  Len(s) >= Len(t) /\ SubSeq(s, 1, Len(t)) = t

\* \b between positions p and p+1 of s (p = 0: before the first character)
WordBoundary(s, p) ==
  LET before == p >= 1 /\ p <= Len(s) /\ IsWord(s[p])
      after == p + 1 >= 1 /\ p + 1 <= Len(s) /\ IsWord(s[p + 1])
  IN  before /= after

RECURSIVE DigitRun(_, _)
\* number of consecutive digits of s starting at position p
DigitRun(s, p) ==
  IF p <= Len(s) /\ s[p] \in Digits THEN 1 + DigitRun(s, p + 1) ELSE 0

\* length of the match of /-?\d+(?:\.\d+)?/ anchored at position p (0: no match)
MatchNumAt(s, p) ==
  LET q == IF p <= Len(s) /\ s[p] = "-" THEN p + 1 ELSE p
      k == DigitRun(s, q)
      e == q + k
      f == IF e <= Len(s) /\ s[e] = "." THEN DigitRun(s, e + 1) ELSE 0
  IN  IF k = 0 THEN 0 ELSE (q - p) + k + (IF f > 0 THEN 1 + f ELSE 0)

RECURSIVE MatchAllFrom(_, _)
\* s.match(/-?\d+(?:\.\d+)?/g) from position p on: the matched substrings
MatchAllFrom(s, p) ==
  IF p > Len(s) THEN <<>>
  ELSE LET m == MatchNumAt(s, p)
       IN  IF m = 0 THEN MatchAllFrom(s, p + 1)
           ELSE <<SubSeq(s, p, p + m - 1)>> \o MatchAllFrom(s, p + m)

RECURSIVE DigitsToInt(_)
DigitsToInt(s) ==
  IF s = <<>> THEN 0 ELSE 10 * DigitsToInt(SubSeq(s, 1, Len(s) - 1)) + DigitVal(s[Len(s)])

\* parseFloat of a token matched by /-?\d+(?:\.\d+)?/
ParseFloat(tok) ==
  LET neg == tok[1] = "-"
      body == IF neg THEN Tail(tok) ELSE tok
      k == DigitRun(body, 1)
      frac == IF k < Len(body) THEN SubSeq(body, k + 2, Len(body)) ELSE <<>>
      mag == Rat(DigitsToInt(SubSeq(body, 1, k)) * Pow10(Len(frac)) + DigitsToInt(frac),
                 Pow10(Len(frac)))
  IN  IF neg THEN [n |-> -mag.n, d |-> mag.d] ELSE mag

RECURSIVE NatToStr(_)
NatToStr(n) ==
  IF n < 10 THEN <<DigitChars[n + 1]>> ELSE NatToStr(n \div 10) \o <<DigitChars[(n % 10) + 1]>>

RECURSIVE PadZeros(_, _)
PadZeros(s, k) == IF Len(s) >= k THEN s ELSE PadZeros(<<"0">> \o s, k)

RECURSIVE DropTrailingZeros(_)
DropTrailingZeros(s) ==
  IF s /= <<>> /\ s[Len(s)] = "0" THEN DropTrailingZeros(SubSeq(s, 1, Len(s) - 1)) ELSE s

\* Number.prototype.toFixed(k)
ToFixed(a, k) ==
  LET m == MathRound(RatMul(RatAbs(a), Int2Rat(Pow10(k))))
      ip == NatToStr(m \div Pow10(k))
      fp == PadZeros(NatToStr(m % Pow10(k)), k)
  IN  (IF a.n < 0 THEN <<"-">> ELSE <<>>) \o ip \o (IF k > 0 THEN <<".">> \o fp ELSE <<>>)

RECURSIVE FracDigits(_, _, _)
\* decimal digits of r/d (0 <= r < d), at most fuel of them
FracDigits(r, d, fuel) ==
  IF r = 0 \/ fuel = 0 THEN <<>>
  ELSE <<DigitChars[((10 * r) \div d) + 1]>> \o FracDigits((10 * r) % d, d, fuel - 1)

\* String(number): shortest decimal form (numbers of the model are finite decimals)
NumToStr(a) ==
  LET m == RatAbs(a)
      fp == FracDigits(m.n % m.d, m.d, 17)
  IN  (IF a.n < 0 THEN <<"-">> ELSE <<>>) \o NatToStr(m.n \div m.d)
        \o (IF fp /= <<>> THEN <<".">> \o fp ELSE <<>>)

\* String(v)
ToStr(v) ==
  CASE v.t = "str" -> v.s
    [] v.t = "num" -> NumToStr(v.q)
    [] OTHER -> <<"n", "u", "l", "l">>

\* JavaScript truthiness
Truthy(v) ==
  CASE v.t = "str" -> v.s /= <<>>
    [] v.t = "num" -> v.q.n /= 0
    [] OTHER -> FALSE

\* v || ''
OrEmpty(v) == IF Truthy(v) THEN v ELSE Empty

\* val == null || val === ''
NullOrEmpty(v) == v.t = "null" \/ v = Empty

-----------------------------------------------------------------------------
(* utils.js: Normalizer *)

\* s.match(/-?\d+(?:\.\d+)?/): the first match as a number, or Null
FirstNumber(s) ==
  LET ms == MatchAllFrom(s, 1)
  IN  IF ms = <<>> THEN Null ELSE Num(ParseFloat(ms[1]))

cleanNumberString(v) == ReplaceFirstComma(StripSpaces(ToStr(v)))

toNumber(val) ==
  IF NullOrEmpty(val) THEN Null ELSE FirstNumber(cleanNumberString(val))

\* /[^k]g/.test(s)
HasGNotAfterK(s) == \E p \in 2..Len(s) : s[p] = "g" /\ s[p - 1] /= "k"
\* /\bt\b/.test(s)
HasStandaloneT(s) ==
  \E p \in 1..Len(s) : s[p] = "t" /\ WordBoundary(s, p - 1) /\ WordBoundary(s, p)

normalizeWeightToKg(value) ==
  IF NullOrEmpty(value) THEN Null
  ELSE LET s == ToLowerCase(cleanNumberString(value))
           m == FirstNumber(s)
       IN  IF m = Null THEN Null
           ELSE IF Contains(s, <<"m", "g">>) THEN Num(RatDiv(m.q, Int2Rat(1000000)))
           ELSE IF HasGNotAfterK(s) /\ ~Contains(s, <<"k", "g">>)
                THEN Num(RatDiv(m.q, Int2Rat(1000)))
           ELSE IF Contains(s, <<"k", "g">>) THEN m
           ELSE IF HasStandaloneT(s) THEN Num(RatMul(m.q, Int2Rat(1000)))
           ELSE m

\* /[^a-z]cm\b/.test(s)
HasCmUnit(s) ==
  \E p \in 2..(Len(s) - 1) :
    s[p - 1] \notin AsciiLower /\ s[p] = "c" /\ s[p + 1] = "m" /\ WordBoundary(s, p + 1)
\* /[^a-z]m\b/.test(s)
HasMUnit(s) ==
  \E p \in 2..Len(s) : s[p - 1] \notin AsciiLower /\ s[p] = "m" /\ WordBoundary(s, p)

\* the scale chosen by lines 49-51: both tests run, the second overrides the first
DimScale(s) ==
  LET afterCm == IF HasCmUnit(s) \/ EndsWith(s, <<"c", "m">>) THEN 10 ELSE 1
  IN  IF HasMUnit(s) \/ EndsWith(s, <<"m">>) THEN 1000 ELSE afterCm

NoDims == [L |-> Null, B |-> Null, H |-> Null]

parseDimensionsToLBH(text) ==
  IF ~Truthy(text) THEN NoDims
  ELSE LET raw == Trim(ToStr(text))
           lower == ToLowerCase(raw)
           xed == [k \in 1..Len(lower) |-> IF lower[k] \in {"×", "x"} THEN "x" ELSE lower[k]]
           s == StripSpaces(ReplaceFirstComma(xed))
           scale == DimScale(s)
           nums == MatchAllFrom(s, 1)
           comp(k) == IF Len(nums) >= k
                      THEN Num(Int2Rat(MathRound(RatMul(ParseFloat(nums[k]), Int2Rat(scale)))))
                      ELSE Null
       IN  [L |-> comp(1), B |-> comp(2), H |-> comp(3)]

\* s.replace(/[\s\-\/_]+/g, '')
normPartNo(v) ==
  IF ~Truthy(v) THEN <<>>
  ELSE SelectSeq(ToUpperCase(ToStr(v)), LAMBDA c : ~(IsSpace(c) \/ c \in {"-", "/", "_"}))

\* exKg, wbKg: Null or Num; tolPct: an integer percentage
withinToleranceKG(exKg, wbKg, tolPct) ==
  IF exKg = Null \/ wbKg = Null THEN FALSE
  ELSE LET diff == RatAbs(RatSub(exKg.q, wbKg.q))
       IN  IF tolPct <= 0 THEN diff.n = 0
           ELSE RatLeq(diff, RatMul(RatAbs(exKg.q), Rat(tolPct, 100)))

OhneCode == <<"O", "H", "N", "E", "/", "N", "/", "N", "/", "N", "/", "N">>

mapMaterialClassificationToExcel(text) ==
  IF ~Truthy(text) THEN <<>>
  ELSE LET s == ToLowerCase(ToStr(text))
           hasNicht == Contains(s, <<"n", "i", "c", "h", "t">>)
           hasSchweiss == Contains(s, <<"s", "c", "h", "w", "e", "i">>)
           hasGuss == Contains(s, <<"g", "u", "s", "s">>)
           hasKlebe == Contains(s, <<"k", "l", "e", "b", "e">>)
           hasSchmiede == Contains(s, <<"s", "c", "h", "m", "i", "e", "d", "e">>)
           hasRelevant == Contains(s, <<"r", "e", "l", "e", "v">>)
       IN  IF hasNicht /\ (hasSchweiss \/ hasGuss \/ hasKlebe \/ hasSchmiede) /\ hasRelevant
           THEN OhneCode ELSE <<>>

-----------------------------------------------------------------------------
(* server: Comparator *)

SCRAPE_CONCURRENCY == 6
WEIGHT_TOL_PCT == 0

StrBeideFehlen == <<"B", "e", "i", "d", "e", " ", "f", "e", "h", "l", "e", "n">>
StrExcelFehlt == <<"E", "x", "c", "e", "l", " ", "f", "e", "h", "l", "t">>
StrWebFehlt == <<"W", "e", "b", " ", "f", "e", "h", "l", "t">>
StrWebFehltUnklar == <<"W", "e", "b", " ", "f", "e", "h", "l", "t", "/", "u", "n", "k", "l", "a", "r">>
StrIdentisch == <<"i", "d", "e", "n", "t", "i", "s", "c", "h">>
StrAbweichend == <<"a", "b", "w", "e", "i", "c", "h", "e", "n", "d">>
StrIdentischNorm == <<"i", "d", "e", "n", "t", "i", "s", "c", "h", " ", "(", "n", "o", "r", "m", "a", "l", "i", "s", "i", "e", "r", "t", ")">>
StrAbweichendExcel == <<"a", "b", "w", "e", "i", "c", "h", "e", "n", "d", ":", " ", "E", "x", "c", "e", "l", " ">>
StrVsWeb == <<" ", "v", "s", ".", " ", "W", "e", "b", " ">>
StrExcel == <<"E", "x", "c", "e", "l", " ">>
StrKgVsWeb == <<" ", "k", "g", " ", "v", "s", ".", " ", "W", "e", "b", " ">>
StrKgOpen == <<" ", "k", "g", " ", "(">>
StrDimsIdentisch == <<"L", "×", "B", "×", "H", " ", "i", "d", "e", "n", "t", "i", "s", "c", "h", " ", "(", "m", "m", ")">>
StrMmVsWeb == <<" ", "m", "m", " ", "v", "s", ".", " ", "W", "e", "b", " ">>
StrMm == <<" ", "m", "m">>

Verdict(status, comment) == [status |-> status, comment |-> comment]

statusCellFill(status) ==
  IF status = "GREEN" THEN "FFD5F4E6"
  ELSE IF status = "RED" THEN "FFFDEAEA"
  ELSE "FFFFF3CD"

\* String(v).trim().toLowerCase().replace(/\s+/g, ' ')
NormText(v) == CollapseSpaces(ToLowerCase(Trim(ToStr(v))))

compareText(excel, web) ==
  IF ~Truthy(excel) /\ ~Truthy(web) THEN Verdict("ORANGE", StrBeideFehlen)
  ELSE IF ~Truthy(excel) THEN Verdict("ORANGE", StrExcelFehlt)
  ELSE IF ~Truthy(web) THEN Verdict("ORANGE", StrWebFehlt)
  ELSE IF NormText(excel) = NormText(web) THEN Verdict("GREEN", StrIdentisch)
  ELSE Verdict("RED", StrAbweichend)

comparePartNo(excel, web) ==
  IF ~Truthy(excel) /\ ~Truthy(web) THEN Verdict("ORANGE", StrBeideFehlen)
  ELSE IF ~Truthy(excel) THEN Verdict("ORANGE", StrExcelFehlt)
  ELSE IF ~Truthy(web) THEN Verdict("ORANGE", StrWebFehlt)
  ELSE IF normPartNo(excel) = normPartNo(web) THEN Verdict("GREEN", StrIdentischNorm)
  ELSE Verdict("RED", StrAbweichendExcel \o ToStr(excel) \o StrVsWeb \o ToStr(web))

\* ((wbKg - exKg) / Math.max(1e-9, Math.abs(exKg))) * 100; every non-zero weight of
\* the model exceeds 1e-9, so the maximum is 1e-9 only for exKg = 0
DiffPct(a, b) ==
  LET den == IF a.n = 0 THEN Rat(1, 1000000000) ELSE RatAbs(a)
  IN  RatMul(RatDiv(RatSub(b, a), den), Int2Rat(100))

\* lines 61-64: both weights are known; pct is diffPct.toFixed(1)
WeightVerdict(exKg, wbKg, pct) ==
  IF withinToleranceKG(exKg, wbKg, WEIGHT_TOL_PCT)
  THEN Verdict("GREEN", <<"Δ", " ">> \o pct \o <<"%">>)
  ELSE Verdict("RED", StrExcel \o ToFixed(exKg.q, 3) \o StrKgVsWeb
                        \o ToFixed(wbKg.q, 3) \o StrKgOpen \o pct \o <<"%", ")">>)

\* lines 58-64, on the normalised weights
CompareKg(exKg, wbKg) ==
  IF exKg = Null /\ wbKg = Null THEN Verdict("ORANGE", StrBeideFehlen)
  ELSE IF exKg = Null THEN Verdict("ORANGE", StrExcelFehlt)
  ELSE IF wbKg = Null THEN Verdict("ORANGE", StrWebFehltUnklar)
  ELSE WeightVerdict(exKg, wbKg, ToFixed(DiffPct(exKg.q, wbKg.q), 1))

compareWeight(excelVal, webVal) ==
  CompareKg(normalizeWeightToKg(excelVal), normalizeWeightToKg(webVal))

\* ${x||''} for x a number or null
NumOrBlank(x) == IF Truthy(x) THEN NumToStr(x.q) ELSE <<>>

\* const eq = (a,b) => (a!=null && b!=null && Math.abs(a-b) < 1e-6)
DimEq(a, b) == a /= Null /\ b /= Null /\ a.q = b.q

\* the RED comment of line 76
DimsComment(L, B, H, fromWeb) ==
  StrExcel \o NumOrBlank(L) \o <<"×">> \o NumOrBlank(B) \o <<"×">> \o NumOrBlank(H)
    \o StrMmVsWeb \o NumOrBlank(fromWeb.L) \o <<"×">> \o NumOrBlank(fromWeb.B) \o <<"×">>
    \o NumOrBlank(fromWeb.H) \o StrMm

\* line 69
AnyExcel(L, B, H) == L /= Null \/ B /= Null \/ H /= Null
\* !fromWeb.L && !fromWeb.B && !fromWeb.H
NoWeb(fromWeb) == ~Truthy(fromWeb.L) /\ ~Truthy(fromWeb.B) /\ ~Truthy(fromWeb.H)

\* lines 69-76, on the parsed components of both sides
CompareLBH(L, B, H, fromWeb) ==
  IF ~AnyExcel(L, B, H) /\ NoWeb(fromWeb) THEN Verdict("ORANGE", StrBeideFehlen)
  ELSE IF ~AnyExcel(L, B, H) THEN Verdict("ORANGE", StrExcelFehlt)
  ELSE IF NoWeb(fromWeb) THEN Verdict("ORANGE", StrWebFehltUnklar)
  ELSE IF DimEq(L, fromWeb.L) /\ DimEq(B, fromWeb.B) /\ DimEq(H, fromWeb.H)
       THEN Verdict("GREEN", StrDimsIdentisch)
       ELSE Verdict("RED", DimsComment(L, B, H, fromWeb))

compareDimensions(excelU, excelV, excelW, webDimText) ==
  CompareLBH(toNumber(excelU), toNumber(excelV), toNumber(excelW),
             parseDimensionsToLBH(webDimText))

-----------------------------------------------------------------------------
(* Pure-function harness: Init draws one call, the action applies the function. *)
(* Every input is rendered from a descriptor (numeric tokens with their values, *)
(* separator, unit), so the expected result is known independently of the code. *)

NoCall == [fn |-> "none"]
NoRet == [t |-> "none"]

\* a numeric token: its text and the value it denotes
Tok(s, n, d) == [s |-> s, v |-> Rat(n, d)]
Tok30 == Tok(<<"3", "0">>, 30, 1)
Tok20 == Tok(<<"2", "0">>, 20, 1)
Tok10 == Tok(<<"1", "0">>, 10, 1)
Tok03 == Tok(<<"0", ".", "3">>, 3, 10)
Tok02 == Tok(<<"0", ".", "2">>, 2, 10)
Tok01 == Tok(<<"0", ".", "1">>, 1, 10)
Tok0 == Tok(<<"0">>, 0, 1)
Tok500 == Tok(<<"5", "0", "0">>, 500, 1)
Tok25 == Tok(<<"2", ".", "5">>, 25, 10)
Tok32 == Tok(<<"3", ",", "2">>, 32, 10)

RECURSIVE Join(_, _)
Join(toks, sep) ==
  IF toks = <<>> THEN <<>>
  ELSE IF Len(toks) = 1 THEN toks[1].s
  ELSE toks[1].s \o sep \o Join(Tail(toks), sep)

DimSeps == {<<"x">>, <<" ", "x", " ">>, <<"X">>, <<"×">>}
\* unit suffix and the millimetres one unit stands for
DimUnits == {[s |-> <<>>, scale |-> 1],
             [s |-> <<" ", "m", "m">>, scale |-> 1],
             [s |-> <<"m", "m">>, scale |-> 1],
             [s |-> <<" ", "c", "m">>, scale |-> 10],
             [s |-> <<" ", "m">>, scale |-> 1000]}
DimTokSeqs ==
  LET Ls == {Tok30, Tok03, Tok0}
      Bs == {Tok20, Tok02}
      Hs == {Tok10, Tok01}
  IN  {<<a>> : a \in Ls} \cup {<<a, b>> : a \in Ls, b \in Bs}
        \cup {<<a, b, c>> : a \in Ls, b \in Bs, c \in Hs}

DimCalls ==
  {[fn |-> "parseDimensionsToLBH", toks |-> ts, unit |-> u,
    args |-> <<Str(Join(ts, sep) \o u.s)>>] : ts \in DimTokSeqs, sep \in DimSeps, u \in DimUnits}

\* unit token and the kilograms one unit stands for, as a fraction
WeightUnits == {[s |-> <<>>, n |-> 1, d |-> 1],
                [s |-> <<"m", "g">>, n |-> 1, d |-> 1000000],
                [s |-> <<"g">>, n |-> 1, d |-> 1000],
                [s |-> <<"k", "g">>, n |-> 1, d |-> 1],
                [s |-> <<"K", "G">>, n |-> 1, d |-> 1],
                [s |-> <<"t">>, n |-> 1000, d |-> 1]}
WeightCalls ==
  {[fn |-> "normalizeWeightToKg", tok |-> k, unit |-> u,
    args |-> <<Str(k.s \o sp \o u.s)>>] :
      k \in {Tok500, Tok25, Tok32, Tok10}, sp \in {<<>>, <<" ">>}, u \in WeightUnits}

\* one side of a text comparison: a base text (0: absent) in one of its spellings
TextSides ==
  {[base |-> 0, v |-> Null], [base |-> 0, v |-> Empty],
   [base |-> 1, v |-> Str(<<"S", "t", "a", "h", "l", " ", "V", "2">>)],
   [base |-> 1, v |-> Str(<<"S", "T", "A", "H", "L", " ", "V", "2">>)],
   [base |-> 1, v |-> Str(<<" ", "s", "t", "a", "h", "l", " ", "\t", " ", "v", "2", " ">>)],
   [base |-> 2, v |-> Str(<<"S", "t", "a", "h", "l">>)],
   [base |-> 3, v |-> Str(<<"A", "l", "u">>)],
   [base |-> 3, v |-> Str(<<" ", "a", "l", "u">>)]}
TextCalls ==
  {[fn |-> "compareText", excel |-> a, web |-> b, args |-> <<a.v, b.v>>] :
      a \in TextSides, b \in TextSides}

\* a dimension component: absent, or a number of millimetres
DimComps == {Null, Num(Int2Rat(0)), Num(Int2Rat(30))}
\* the raw cell value holding a component: numbers as numbers, 30 also as text
RawOf(c) == IF c = Num(Int2Rat(30)) THEN Str(Tok30.s) ELSE c
WebCompSeqs ==
  LET Ts == {Tok0, Tok30}
  IN  {<<>>} \cup {<<a>> : a \in Ts} \cup {<<a, b>> : a \in Ts, b \in Ts}
        \cup {<<a, b, c>> : a \in Ts, b \in Ts, c \in Ts}
CompAt(ts, k) == IF Len(ts) >= k THEN Num(ts[k].v) ELSE Null
DimCmpCalls ==
  {[fn |-> "compareDimensions",
    excelDims |-> <<l, b, h>>,
    webDims |-> <<CompAt(ts, 1), CompAt(ts, 2), CompAt(ts, 3)>>,
    args |-> <<RawOf(l), RawOf(b), RawOf(h), Str(Join(ts, <<"x">>))>>] :
      l \in DimComps, b \in DimComps, h \in DimComps, ts \in WebCompSeqs}

FnCalls == DimCalls \cup WeightCalls \cup TextCalls \cup DimCmpCalls

-----------------------------------------------------------------------------
(* Worksheets.  A worksheet is the dense sequence of its rows 1..lastRow; a row *)
(* holds one cell per modelled column.  The fields src, kind, born, owner, at   *)
(* are history (not read by the program): src is the row's index in the upload  *)
(* of the current run (0: inserted in this run), kind/born say which insertion  *)
(* created it, at is the candidate index it was inserted for and owner the src  *)
(* of the row found at that index at that moment.                               *)

HEADER_ROW == 3
FIRST_DATA_ROW == 4

Cols == {"A", "B", "C", "E", "N", "P", "S", "U", "V", "W", "Z"}
MarkerCols == {"A", "B", "C", "Z"}

BlankCell == [value |-> Null, fill |-> "none"]
BlankCells == [c \in Cols |-> BlankCell]
Text(s) == [value |-> Str(s), fill |-> "none"]
Number(n) == [value |-> Num(Int2Rat(n)), fill |-> "none"]

SourceRow(cells) == [cells |-> cells, src |-> 0, kind |-> "orig", born |-> 0, owner |-> 0, at |-> 0]

KeyA2V1 == <<"A", "2", "V", "1">>
KeyA2V2 == <<"A", "2", "V", "2">>
PrefixA2V == <<"A", "2", "V">>

\* a product whose record on the web agrees with the row
RowMatching ==
  SourceRow([BlankCells EXCEPT
    !["A"] = Number(1), !["C"] = Text(<<"M", "o", "t", "o", "r">>), !["E"] = Text(<<"6", "S", "L", "-", "3", "2">>),
    !["S"] = Text(<<"2", ",", "5", " ", "k", "g">>), !["U"] = Number(30), !["V"] = Number(20),
    !["W"] = Number(10), !["P"] = Text(<<"S", "t", "a", "h", "l">>), !["N"] = Text(OhneCode),
    !["Z"] = Text(KeyA2V1)])
\* a product keyed in lower case with surrounding blanks, differing from the web
RowDiffering ==
  SourceRow([BlankCells EXCEPT
    !["C"] = Text(<<"K", "a", "b", "e", "l">>), !["S"] = Text(<<"5", "0", "0", " ", "g">>), !["U"] = Number(0),
    !["Z"] = Text(<<" ", "a", "2", "v", "2", " ">>)])
\* a row whose key lacks the prefix
RowForeignKey ==
  SourceRow([BlankCells EXCEPT !["C"] = Text(<<"L", "a", "g", "e", "r">>), !["Z"] = Text(<<"X", "Y", "Z">>)])
\* a candidate row without a key
RowNoKey == SourceRow([BlankCells EXCEPT !["B"] = Text(<<"x">>), !["Z"] = Text(<<" ">>)])
\* a row that is no candidate: nothing in A, B, C, Z
RowBlank == SourceRow([BlankCells EXCEPT !["E"] = Text(<<"n", "/", "a">>)])

DataRows == {RowMatching, RowDiffering, RowForeignKey, RowNoKey, RowBlank}

HeaderRows ==
  <<SourceRow(BlankCells),
    SourceRow(BlankCells),
    SourceRow([BlankCells EXCEPT !["C"] = Text(<<"T", "i", "t", "e", "l">>), !["Z"] = Text(<<"A", "2", "V", "-", "N", "r">>)])>>

RECURSIVE DataRowCount(_)
\* the number of rows below the header rows, over all worksheets
DataRowCount(book) ==
  IF book = <<>> THEN 0
  ELSE (IF Len(Head(book)) > HEADER_ROW THEN Len(Head(book)) - HEADER_ROW ELSE 0)
         + DataRowCount(Tail(book))

\* history: number the rows of an upload
Stamp(book) ==
  [s \in 1..Len(book) |-> [r \in 1..Len(book[s]) |-> [book[s][r] EXCEPT !.src = r]]]

\* ws.lastRow?.number || 0
LastRow(ws) == Len(ws)
\* ws.getCell(`${c}${r}`).value
CellValue(ws, c, r) == ws[r].cells[c].value

-----------------------------------------------------------------------------
(* Product records and the retrieval orchestrator (scraper.scrapeMany) *)

UrlPrefix == <<"h", "t", "t", "p", "s", ":", "/", "/", "w", "w", "w", ".", "m", "y", "m", "o", "b", "a", "s", "e", ".", "c", "o", "m", "/", "d", "e", "/", "p", "/">>
\* a2vUrl: the id is the trimmed key
a2vUrl(a2v) == UrlPrefix \o Trim(a2v)

Record(key, title, partNo, weight, dims, material, class) ==
  [A2V |-> Str(key), URL |-> Str(a2vUrl(key)), Produkttitel |-> Str(title),
   WeitereArtikelnummer |-> Str(partNo), Gewicht |-> Str(weight), Abmessung |-> Str(dims),
   Werkstoff |-> Str(material), Materialklassifizierung |-> Str(class)]

\* the placeholder of line 142
Placeholder(key) == Record(key, <<>>, <<>>, <<>>, <<>>, <<>>, <<>>)

\* what the external source holds for a key
HasCatalogEntry(key) == key \in {KeyA2V1, KeyA2V2}
Catalog(key) ==
  IF key = KeyA2V1
  THEN Record(key, <<"M", "O", "T", "O", "R">>, <<"6", "s", "l", " ", "3", "2">>, <<"2", ".", "5", " ", "k", "g">>, <<"3", "0", "x", "2", "0", "x", "1", "0">>,
              <<"s", "t", "a", "h", "l">>, <<"N", "i", "c", "h", "t", " ", "G", "u", "s", "s", " ", "r", "e", "l", "e", "v", "a", "n", "t">>)
  ELSE Record(key, <<"K", "a", "b", "e", "l", " ", "2">>, <<>>, <<"1", " ", "k", "g">>, <<"0", ".", "3", " ", "x", " ", "0", ".", "2", " ", "m">>,
              <<>>, <<>>)

\* the outcome recorded for a key whose fetch failed: no field of a record is set
Failure(key) ==
  [A2V |-> Null, URL |-> Null, Produkttitel |-> Null, WeitereArtikelnummer |-> Null,
   Gewicht |-> Null, Abmessung |-> Null, Werkstoff |-> Null, Materialklassifizierung |-> Null]

\* the outcomes a fetch of key can have
Outcomes(key) == {Failure(key)} \cup (IF HasCatalogEntry(key) THEN {Catalog(key)} ELSE {})

RECURSIVE Dedupe(_)
\* the distinct keys of a list, in order of first occurrence
Dedupe(keys) ==
  IF keys = <<>> THEN <<>>
  ELSE LET front == Dedupe(SubSeq(keys, 1, Len(keys) - 1))
           k == keys[Len(keys)]
       IN  IF \E j \in 1..Len(front) : front[j] = k THEN front ELSE Append(front, k)

Range(s) == {s[k] : k \in 1..Len(s)}
Bump(f, k) == IF k \in DOMAIN f THEN [f EXCEPT ![k] = @ + 1] ELSE f @@ (k :> 1)

\* variant: a fetch is started whenever a key is waiting
SlotFreeAlways(running, limit) == TRUE
\* a fetch may start while fewer than `limit` fetches are running
SlotFree(running, limit) == Cardinality(running) < limit

\* a queued key starts when a slot is free
StartFetch ==
  /\ pc = "scrape"
  /\ queue /= <<>>
  /\ SlotFree(inflight, concurrency)
  /\ inflight' = inflight \cup {Head(queue)}
  /\ queue' = Tail(queue)
  /\ submitted' = Bump(submitted, Head(queue))
  /\ UNCHANGED <<call, ret, wb, pc, a2vs, results, concurrency, wsIdx, products, i, run, orig>>

\* a running fetch ends, with a record or with a failure; either is that key's outcome
FinishFetch ==
  /\ pc = "scrape"
  /\ \E k \in inflight : \E o \in Outcomes(k) :
       /\ results' = results @@ (k :> o)
       /\ inflight' = inflight \ {k}
  /\ UNCHANGED <<call, ret, wb, pc, a2vs, queue, concurrency, wsIdx, products, i, run, orig,
                 submitted>>

\* scrapeMany resolves once every key has its outcome; the handler goes on to step 3
ScrapeReturn ==
  /\ pc = "scrape"
  /\ queue = <<>>
  /\ inflight = {}
  /\ pc' = "sheet"
  /\ wsIdx' = 1
  /\ UNCHANGED <<call, ret, wb, a2vs, queue, inflight, results, concurrency, products, i, run,
                 orig, submitted>>

-----------------------------------------------------------------------------
(* server: POST /api/process-excel *)

\* String(val).trim().toUpperCase()
KeyOf(val) == ToUpperCase(Trim(ToStr(val)))

\* variant of lines 109-113 without the prefix test
KeysOfRowAnyKey(ws, r) ==
  LET val == CellValue(ws, "Z", r)
  IN  IF Truthy(val) /\ Trim(ToStr(val)) /= <<>> THEN <<KeyOf(val)>> ELSE <<>>

\* lines 109-113: the key a row contributes to the batch, if any
KeysOfRow(ws, r) ==
  LET val == CellValue(ws, "Z", r)
  IN  IF Truthy(val) /\ Trim(ToStr(val)) /= <<>> /\ StartsWith(KeyOf(val), PrefixA2V)
      THEN <<KeyOf(val)>>
      ELSE <<>>

RECURSIVE KeysOfRows(_, _)
\* the keys of rows r..lastRow of a worksheet
KeysOfRows(ws, r) ==
  IF r > LastRow(ws) THEN <<>> ELSE KeysOfRow(ws, r) \o KeysOfRows(ws, r + 1)

RECURSIVE ExtractA2Vs(_)
\* step 1: the keys of column Z from FIRST_DATA_ROW on, over all worksheets
ExtractA2Vs(book) ==
  IF book = <<>> THEN <<>>
  ELSE KeysOfRows(Head(book), FIRST_DATA_ROW) \o ExtractA2Vs(Tail(book))

\* variant of line 126 that looks at the columns A and B only
IsProductRowLeadingCols(ws, r) ==
  \E c \in {"A", "B"} :
    Truthy(CellValue(ws, c, r)) /\ Trim(ToStr(CellValue(ws, c, r))) /= <<>>

\* line 126: some marker column of row r holds a non-blank value
IsProductRow(ws, r) ==
  \E c \in MarkerCols :
    Truthy(CellValue(ws, c, r)) /\ Trim(ToStr(CellValue(ws, c, r))) /= <<>>

\* lines 124-128: the candidate rows of a worksheet, ascending
ProductRows(ws) ==
  SelectSeq([k \in 1..(LastRow(ws) - HEADER_ROW) |-> k + HEADER_ROW],
            LAMBDA r : IsProductRow(ws, r))

\* ws.spliceRows(start, 0, [null]): one blank row becomes row `start`, the rows from
\* `start` on move down by one
spliceRows(ws, start, tag) ==
  SubSeq(ws, 1, start - 1)
    \o <<[cells |-> BlankCells, src |-> 0, kind |-> tag.kind, born |-> tag.born,
          owner |-> tag.owner, at |-> tag.at]>>
    \o SubSeq(ws, start, Len(ws))

Put(ws, c, r, v) == [ws EXCEPT ![r].cells[c].value = v]
PutVerdict(ws, c, r, verdict) ==
  [ws EXCEPT ![r].cells[c] = [value |-> Str(verdict.comment),
                              fill |-> statusCellFill(verdict.status)]]

\* variant of line 130: the candidates walked upwards
CurrentProductAscending(prods, k) == prods[Len(prods) + 1 - k]
\* line 130-131: the candidate handled when the loop index is i
CurrentProduct(prods, k) == prods[k]
\* variant of line 145: the rows inserted at the candidate's own index
InsertAtCandidate(r) == r
\* line 145
InsertAt(r) == r + 1
\* variant of line 148: the web data written one row too high
WebRowIndexAbove(insertAt) == insertAt - 1
\* lines 148-149
WebRowIndex(insertAt) == insertAt
CmpRowIndex(insertAt) == insertAt + 1

\* lines 142-143: the record compared with the row
WebDataFor(A2V, res) ==
  IF StartsWith(A2V, PrefixA2V) /\ A2V \in DOMAIN res THEN res[A2V] ELSE Placeholder(A2V)

PutIfSet(ws, c, r, v) == IF v /= Null THEN Put(ws, c, r, v) ELSE ws

\* lines 152-155
WebRowTexts(ws, webRow, A2V, webData) ==
  Put(Put(Put(Put(ws, "Z", webRow, Str(A2V)),
              "E", webRow, OrEmpty(webData.WeitereArtikelnummer)),
          "C", webRow, OrEmpty(webData.Produkttitel)),
      "S", webRow, OrEmpty(webData.Gewicht))

\* lines 157-159
WebRowDims(ws, webRow, dimParsed) ==
  PutIfSet(PutIfSet(PutIfSet(ws, "U", webRow, dimParsed.L), "V", webRow, dimParsed.B),
           "W", webRow, dimParsed.H)

\* lines 151-161: the web-data row
FillWebRow(ws, webRow, A2V, webData) ==
  Put(Put(WebRowDims(WebRowTexts(ws, webRow, A2V, webData), webRow,
                     parseDimensionsToLBH(webData.Abmessung)),
          "P", webRow, OrEmpty(webData.Werkstoff)),
      "N", webRow, Str(mapMaterialClassificationToExcel(webData.Materialklassifizierung)))

\* line 164
CmpKey(A2V, webData) ==
  compareText(Str(A2V), IF Truthy(webData.A2V) THEN webData.A2V ELSE Str(A2V))
\* lines 188-189
CmpNote(noteExcel, webData) ==
  compareText(Str(ToUpperCase(ToStr(OrEmpty(noteExcel)))),
              Str(ToUpperCase(mapMaterialClassificationToExcel(webData.Materialklassifizierung))))

\* lines 163-191: the comparison row; src holds the candidate's cells as read in
\* lines 132-140
FillCmpRow(ws, cmpRow, A2V, src, webData) ==
  PutVerdict(
    PutVerdict(
      PutVerdict(
        PutVerdict(
          PutVerdict(
            PutVerdict(
              PutVerdict(ws, "Z", cmpRow, CmpKey(A2V, webData)),
              "E", cmpRow,
              comparePartNo(OrEmpty(src["E"].value), OrEmpty(webData.WeitereArtikelnummer))),
            "C", cmpRow, compareText(OrEmpty(src["C"].value), OrEmpty(webData.Produkttitel))),
          "S", cmpRow, compareWeight(src["S"].value, webData.Gewicht)),
        "U", cmpRow,
        compareDimensions(src["U"].value, src["V"].value, src["W"].value, webData.Abmessung)),
      "P", cmpRow, compareText(OrEmpty(src["P"].value), OrEmpty(webData.Werkstoff))),
    "N", cmpRow, CmpNote(src["N"].value, webData))

\* line 132
RowA2V(ws, r) == KeyOf(OrEmpty(CellValue(ws, "Z", r)))

\* history attached to an inserted row
Tag(kind, ws, r, runNo) == [kind |-> kind, born |-> runNo, owner |-> ws[r].src, at |-> r]

\* lines 145-147: the two blank rows
InsertRows(ws, r, runNo) ==
  spliceRows(spliceRows(ws, InsertAt(r), Tag("web", ws, r, runNo)),
             InsertAt(r) + 1, Tag("cmp", ws, r, runNo))

\* lines 145-191, given the row's key and record
ProcessWithData(ws, r, A2V, webData, runNo) ==
  FillCmpRow(FillWebRow(InsertRows(ws, r, runNo), WebRowIndex(InsertAt(r)), A2V, webData),
             CmpRowIndex(InsertAt(r)), A2V, ws[r].cells, webData)

ProcessWithKey(ws, r, A2V, res, runNo) ==
  ProcessWithData(ws, r, A2V, WebDataFor(A2V, res), runNo)

\* lines 131-191: one iteration of the loop, for the candidate index r
ProcessProduct(ws, r, res, runNo) == ProcessWithKey(ws, r, RowA2V(ws, r), res, runNo)

NoMap == <<>>
NoCounts == <<>>

\* step 1 and the call of scraper.scrapeMany(a2vs, SCRAPE_CONCURRENCY): the distinct
\* keys are queued
ExtractKeys ==
  /\ pc = "extract"
  /\ a2vs' = ExtractA2Vs(wb)
  /\ queue' = Dedupe(a2vs')
  /\ pc' = "scrape"
  /\ UNCHANGED <<call, ret, wb, inflight, results, concurrency, wsIdx, products, i, run, orig,
                 submitted>>

\* lines 121-128: the next worksheet; one that ends before the header row is skipped
BeginSheet ==
  /\ pc = "sheet"
  /\ wsIdx <= Len(wb)
  /\ IF LastRow(wb[wsIdx]) < HEADER_ROW
     THEN /\ wsIdx' = wsIdx + 1
          /\ UNCHANGED <<pc, products, i>>
     ELSE /\ products' = ProductRows(wb[wsIdx])
          /\ i' = Len(products')
          /\ pc' = "rows"
          /\ UNCHANGED wsIdx
  /\ UNCHANGED <<call, ret, wb, a2vs, queue, inflight, results, concurrency, run, orig,
                 submitted>>

\* lines 130-192: one iteration of the candidate loop
ProcessRow ==
  /\ pc = "rows"
  /\ i >= 1
  /\ wb' = [wb EXCEPT ![wsIdx] = ProcessProduct(@, CurrentProduct(products, i), results, run)]
  /\ i' = i - 1
  /\ UNCHANGED <<call, ret, pc, a2vs, queue, inflight, results, concurrency, wsIdx, products,
                 run, orig, submitted>>

\* the candidate loop of a worksheet ends
EndSheet ==
  /\ pc = "rows"
  /\ i < 1
  /\ wsIdx' = wsIdx + 1
  /\ pc' = "sheet"
  /\ UNCHANGED <<call, ret, wb, a2vs, queue, inflight, results, concurrency, products, i, run,
                 orig, submitted>>

\* lines 195-198: the augmented workbook is sent back
Respond ==
  /\ pc = "sheet"
  /\ wsIdx > Len(wb)
  /\ pc' = "done"
  /\ UNCHANGED <<call, ret, wb, a2vs, queue, inflight, results, concurrency, wsIdx, products,
                 i, run, orig, submitted>>

\* the client posts the workbook it received as a new upload.  The second request
\* is the last one followed, and it is followed for workbooks of one worksheet:
\* lines 121-192 handle each worksheet on its own
Reupload ==
  /\ pc = "done"
  /\ run = 1
  /\ Len(wb) = 1
  /\ run' = run + 1
  /\ wb' = Stamp(wb)
  /\ orig' = wb'
  /\ pc' = "extract"
  /\ a2vs' = <<>>
  /\ queue' = <<>>
  /\ inflight' = {}
  /\ results' = NoMap
  /\ wsIdx' = 0
  /\ products' = <<>>
  /\ i' = 0
  /\ submitted' = NoCounts
  /\ UNCHANGED <<call, ret, concurrency>>

\* lines 101-102: the upload is read, worksheet by worksheet and row by row.  A
\* worksheet is empty or starts with the header rows.
LoadSheet ==
  /\ pc = "load"
  /\ Len(wb) < MaxSheets
  /\ \E ws \in {<<>>, HeaderRows} : wb' = Append(wb, ws)
  /\ UNCHANGED <<call, ret, pc, a2vs, queue, inflight, results, concurrency, wsIdx, products,
                 i, run, orig, submitted>>

LoadRow ==
  /\ pc = "load"
  /\ wb /= <<>>
  /\ Len(wb[Len(wb)]) >= HEADER_ROW
  /\ DataRowCount(wb) < MaxRows
  /\ \E row \in DataRows : wb' = [wb EXCEPT ![Len(wb)] = Append(@, row)]
  /\ UNCHANGED <<call, ret, pc, a2vs, queue, inflight, results, concurrency, wsIdx, products,
                 i, run, orig, submitted>>

\* the workbook is loaded; orig remembers it, its rows numbered
FinishLoad ==
  /\ pc = "load"
  /\ wb /= <<>>
  /\ wb' = Stamp(wb)
  /\ orig' = wb'
  /\ pc' = "extract"
  /\ UNCHANGED <<call, ret, a2vs, queue, inflight, results, concurrency, wsIdx, products, i,
                 run, submitted>>

Init ==
  /\ call = NoCall
  /\ ret = NoRet
  /\ wb = <<>>
  /\ orig = <<>>
  /\ pc = "load"
  /\ concurrency = SCRAPE_CONCURRENCY
  /\ run = 1
  /\ a2vs = <<>>
  /\ queue = <<>>
  /\ inflight = {}
  /\ results = NoMap
  /\ wsIdx = 0
  /\ products = <<>>
  /\ i = 0
  /\ submitted = NoCounts

\* one request: extraction, retrieval, reconciliation, response
Next ==
  \/ LoadSheet
  \/ LoadRow
  \/ FinishLoad
  \/ ExtractKeys
  \/ StartFetch
  \/ FinishFetch
  \/ ScrapeReturn
  \/ BeginSheet
  \/ ProcessRow
  \/ EndSheet
  \/ Respond

Spec == Init /\ [][Next]_vars

\* requests in sequence, each uploading the workbook the previous one returned
NextRerun ==
  \/ LoadSheet
  \/ LoadRow
  \/ FinishLoad
  \/ ExtractKeys
  \/ StartFetch
  \/ FinishFetch
  \/ ScrapeReturn
  \/ BeginSheet
  \/ ProcessRow
  \/ EndSheet
  \/ Respond
  \/ Reupload

SpecRerun == Init /\ [][NextRerun]_vars

-----------------------------------------------------------------------------
(* Specification of scrapeMany called on its own: any key list, with repeats, *)
(* under any limit                                                             *)

\* a key the external source holds no record for
KeyA2V3 == <<"A", "2", "V", "3">>
ScrapeKeys == {KeyA2V1, KeyA2V2, KeyA2V3}
KeyLists == UNION {[1..n -> ScrapeKeys] : n \in 0..MaxKeys}

InitScrape ==
  /\ call = NoCall
  /\ ret = NoRet
  /\ wb = <<>>
  /\ orig = <<>>
  /\ pc = "scrape"
  /\ concurrency \in 1..MaxConcurrency
  /\ run = 1
  /\ a2vs \in KeyLists
  /\ queue = Dedupe(a2vs)
  /\ inflight = {}
  /\ results = NoMap
  /\ wsIdx = 0
  /\ products = <<>>
  /\ i = 0
  /\ submitted = NoCounts

NextScrape ==
  \/ StartFetch
  \/ FinishFetch
  \/ ScrapeReturn

SpecScrape == InitScrape /\ [][NextScrape]_vars

-----------------------------------------------------------------------------
(* Specification of the pure functions: one call per behaviour *)

InitFn ==
  /\ call \in FnCalls
  /\ ret = NoRet
  /\ wb = <<>>
  /\ orig = <<>>
  /\ pc = "idle"
  /\ concurrency = 1
  /\ run = 1
  /\ a2vs = <<>>
  /\ queue = <<>>
  /\ inflight = {}
  /\ results = NoMap
  /\ wsIdx = 0
  /\ products = <<>>
  /\ i = 0
  /\ submitted = NoCounts

Idle == <<wb, pc, a2vs, queue, inflight, results, concurrency, wsIdx, products, i, run, orig,
          submitted>>

ApplyParseDimensions ==
  /\ call.fn = "parseDimensionsToLBH"
  /\ ret = NoRet
  /\ ret' = parseDimensionsToLBH(call.args[1])
  /\ UNCHANGED <<call, Idle>>

ApplyNormalizeWeight ==
  /\ call.fn = "normalizeWeightToKg"
  /\ ret = NoRet
  /\ ret' = normalizeWeightToKg(call.args[1])
  /\ UNCHANGED <<call, Idle>>

ApplyCompareText ==
  /\ call.fn = "compareText"
  /\ ret = NoRet
  /\ ret' = compareText(call.args[1], call.args[2])
  /\ UNCHANGED <<call, Idle>>

ApplyCompareDimensions ==
  /\ call.fn = "compareDimensions"
  /\ ret = NoRet
  /\ ret' = compareDimensions(call.args[1], call.args[2], call.args[3], call.args[4])
  /\ UNCHANGED <<call, Idle>>

NextFn ==
  \/ ApplyParseDimensions
  \/ ApplyNormalizeWeight
  \/ ApplyCompareText
  \/ ApplyCompareDimensions

SpecFn == InitFn /\ [][NextFn]_vars

-----------------------------------------------------------------------------
(* Properties *)

\* the handler has read the upload and orig holds it
Uploaded == pc \in {"extract", "scrape", "sheet", "rows", "done"}
\* scrapeMany has returned
Scraped == pc \in {"sheet", "rows", "done"}
\* the writer has finished worksheet s in the current run
SheetDone(s) == pc = "done" \/ (pc \in {"sheet", "rows"} /\ s < wsIdx)

\* the candidate rows of worksheet s of the upload
Cands(s) == Range(ProductRows(orig[s]))

\* row is the web-data (comparison) row inserted in this run for the source row r
IsWebRowOf(row, r) == row.src = 0 /\ row.kind = "web" /\ row.born = run /\ row.owner = r
IsCmpRowOf(row, r) == row.src = 0 /\ row.kind = "cmp" /\ row.born = run /\ row.owner = r

\* in ws, the source row r is directly followed by its web-data row and then by
\* its comparison row
Augmented(ws, r) ==
  \E p \in 1..(Len(ws) - 2) :
    ws[p].src = r /\ IsWebRowOf(ws[p + 1], r) /\ IsCmpRowOf(ws[p + 2], r)

\* C1: once the writer has processed a worksheet with M candidate rows, 2M rows
\* have been inserted, the candidates and the inserted rows are 3M rows, and every
\* candidate is immediately followed by its own web-data row and then by its own
\* comparison row.
C1_TwoRowsAfterEachCandidate ==
  \A s \in 1..Len(wb) :
    SheetDone(s) =>
      /\ Len(wb[s]) = Len(orig[s]) + 2 * Cardinality(Cands(s))
      /\ Cardinality({p \in 1..Len(wb[s]) : wb[s][p].src \in Cands(s) \/ wb[s][p].src = 0})
           = 3 * Cardinality(Cands(s))
      /\ \A r \in Cands(s) : Augmented(wb[s], r)

\* a processed worksheet with two candidate rows
C1_Witness ==
  /\ pc = "done"
  /\ \E s \in 1..Len(wb) : Cardinality(Cands(s)) >= 2 /\ Len(wb[s]) > Len(orig[s])

\* C2: the writer never writes to a source row: at every moment the rows of the
\* upload are all present, in their order and with their cells unchanged; whatever
\* is written goes to rows inserted in this run.
C2_SourceRowsUntouched ==
  Uploaded =>
    /\ Len(wb) = Len(orig)
    /\ \A s \in 1..Len(wb) : SelectSeq(wb[s], LAMBDA row : row.src /= 0) = orig[s]

\* rows were inserted and written next to source rows
C2_Witness ==
  /\ pc = "done"
  /\ \E s \in 1..Len(wb) : \E p \in 1..Len(wb[s]) :
       wb[s][p].src = 0 /\ wb[s][p].cells["C"].value /= Null

\* C3: never more than `concurrency` fetches are in flight, no key is fetched more
\* than once, and when scrapeMany has returned the map holds exactly one outcome,
\* a record of that key or its failure, for each distinct key of the input list.
C3_BoundedFetchOneOutcomePerKey ==
  /\ Cardinality(inflight) <= concurrency
  /\ \A k \in DOMAIN submitted : submitted[k] <= 1
  /\ DOMAIN results \subseteq Range(a2vs)
  /\ \A k \in DOMAIN results : results[k] \in Outcomes(k)
  /\ Scraped => DOMAIN results = Range(a2vs)

\* scrapeMany has returned for a list that repeats a key and has more distinct
\* keys than the limit; one fetch failed though the source holds the record,
\* another delivered
C3_Witness ==
  /\ Scraped
  /\ Len(a2vs) > Cardinality(Range(a2vs))
  /\ Cardinality(Range(a2vs)) > concurrency
  /\ \E k1 \in DOMAIN results : \E k2 \in DOMAIN results :
       /\ HasCatalogEntry(k1)
       /\ results[k1] = Failure(k1)
       /\ results[k2] = Catalog(k2)

\* C8: during the pass over a worksheet the candidate list is the one computed on
\* the worksheet as uploaded, the candidates handled so far are exactly those
\* above the loop index, each handled once, every candidate still to come is found
\* at its index, and every candidate handled was the source row it denoted.
C8_FrozenDescendingWalk ==
  pc = "rows" =>
    /\ products = ProductRows(orig[wsIdx])
    /\ \A j \in 1..i : wb[wsIdx][products[j]].src = products[j]
    /\ \A p \in 1..Len(wb[wsIdx]) :
         wb[wsIdx][p].src = 0 => wb[wsIdx][p].owner = wb[wsIdx][p].at
    /\ \A j \in 1..Len(products) : \A kind \in {"web", "cmp"} :
         Cardinality({p \in 1..Len(wb[wsIdx]) :
                        /\ wb[wsIdx][p].src = 0
                        /\ wb[wsIdx][p].kind = kind
                        /\ wb[wsIdx][p].at = products[j]})
           = (IF j > i THEN 1 ELSE 0)

\* in the middle of a walk: a candidate has been handled, another is still to come
C8_Witness == pc = "rows" /\ i >= 1 /\ i < Len(products)

\* the fills of the verdicts
FillMatch == statusCellFill("GREEN")
FillUnresolved == statusCellFill("ORANGE")

\* the key of the candidate r of the upload is blank, lacks the prefix or has no
\* entry in the map
Ineligible(s, r) ==
  ~StartsWith(RowA2V(orig[s], r), PrefixA2V) \/ RowA2V(orig[s], r) \notin DOMAIN results

\* web is a web-data row holding the placeholder of key: the key and no attribute
HoldsPlaceholder(web, key) ==
  /\ web.cells["Z"].value = Str(key)
  /\ \A c \in {"E", "C", "S", "P", "N"} : web.cells[c].value = Empty
  /\ \A c \in {"U", "V", "W"} : web.cells[c].value = Null

\* cmp is a comparison row that marks the part number, the title, the material
\* and the classification unresolved; its key cell compares the key with itself
MarksUnresolved(cmp, key) ==
  /\ \A c \in {"E", "C", "P", "N"} : cmp.cells[c].fill = FillUnresolved
  /\ cmp.cells["Z"].fill = (IF key = <<>> THEN FillUnresolved ELSE FillMatch)

\* C10: every key queued for or submitted to retrieval carries the prefix; and a
\* candidate row whose key is blank, lacks the prefix or has no entry in the map
\* is processed all the same: its two rows are inserted, the web-data row holds
\* the empty placeholder and the comparison row marks the text attributes of
\* the record (part number, title, material, classification) unresolved.
C10_IneligibleKeysGetPlaceholder ==
  /\ \A j \in 1..Len(a2vs) : StartsWith(a2vs[j], PrefixA2V)
  /\ \A k \in DOMAIN submitted : StartsWith(k, PrefixA2V)
  /\ \A k \in inflight : StartsWith(k, PrefixA2V)
  /\ \A s \in 1..Len(wb) :
       SheetDone(s) =>
         \A r \in Cands(s) :
           Ineligible(s, r) =>
             \E p \in 1..(Len(wb[s]) - 2) :
               /\ wb[s][p].src = r
               /\ IsWebRowOf(wb[s][p + 1], r)
               /\ IsCmpRowOf(wb[s][p + 2], r)
               /\ HoldsPlaceholder(wb[s][p + 1], RowA2V(orig[s], r))
               /\ MarksUnresolved(wb[s][p + 2], RowA2V(orig[s], r))

\* a response for a workbook with a candidate of blank key and a candidate whose
\* key lacks the prefix, next to no submitted key
C10_Witness ==
  /\ pc = "done"
  /\ \E s \in 1..Len(wb) : \E r1 \in Cands(s) : \E r2 \in Cands(s) :
       /\ RowA2V(orig[s], r1) = <<>>
       /\ RowA2V(orig[s], r2) /= <<>>
       /\ ~StartsWith(RowA2V(orig[s], r2), PrefixA2V)

\* the rows of worksheet s of the upload that an earlier run inserted
InsertedBefore(s, kind) == {r \in 1..Len(orig[s]) : orig[s][r].kind = kind}

\* C6 as amended: in a second run on the workbook the first run returned, every
\* comparison row of the first run is a candidate, a web-data row of the first
\* run is a candidate exactly if the key of its source row is not blank, the
\* source rows that were candidates are candidates again, and so every worksheet
\* that had a candidate receives additional rows, two per candidate.
C6_RerunInsertsAgain ==
  (run = 2 /\ Uploaded) =>
    \A s \in 1..Len(orig) :
      /\ \A r \in InsertedBefore(s, "cmp") : r \in Cands(s) /\ (r - 2) \in Cands(s)
      /\ \A r \in InsertedBefore(s, "web") :
           r \in Cands(s) <=> RowA2V(orig[s], r - 1) /= <<>>
      /\ SheetDone(s) =>
           /\ Len(wb[s]) = Len(orig[s]) + 2 * Cardinality(Cands(s))
           /\ Cardinality(Cands(s)) >= 2 * Cardinality(InsertedBefore(s, "cmp"))

\* C6 as stated: in a second run every web-data row and every comparison row of
\* the first run is treated as a candidate row, and a worksheet that had a
\* candidate receives additional rows.
C6_InsertedRowsAreCandidates ==
  (run = 2 /\ Uploaded) =>
    \A s \in 1..Len(orig) :
      /\ \A r \in InsertedBefore(s, "web") \cup InsertedBefore(s, "cmp") : r \in Cands(s)
      /\ (SheetDone(s) /\ InsertedBefore(s, "cmp") /= {}) => Len(wb[s]) > Len(orig[s])

\* the second run has answered; the first had inserted a web-data row that is a
\* candidate now and one that is not
C6_Witness ==
  /\ run = 2
  /\ pc = "done"
  /\ \E s \in 1..Len(orig) : \E r1 \in InsertedBefore(s, "web") :
       /\ r1 \in Cands(s)
       /\ Len(wb[s]) > Len(orig[s])
  /\ \E s \in 1..Len(orig) : \E r2 \in InsertedBefore(s, "web") : r2 \notin Cands(s)

\* the value a list of tokens gives for component k under a scale
ScaledComp(toks, k, scale) ==
  IF Len(toks) >= k THEN Num(Int2Rat(MathRound(RatMul(toks[k].v, Int2Rat(scale))))) ELSE Null

\* C4: parseDimensionsToLBH scales the first three numbers of a text by its unit,
\* centimetre by 10, metre by 1000, millimetre or no unit by 1, and assigns them in
\* order to L, B, H.
C4_DimensionsScaledByUnit ==
  (call.fn = "parseDimensionsToLBH" /\ ret /= NoRet) =>
    ret = [L |-> ScaledComp(call.toks, 1, call.unit.scale),
           B |-> ScaledComp(call.toks, 2, call.unit.scale),
           H |-> ScaledComp(call.toks, 3, call.unit.scale)]

\* C5: normalizeWeightToKg converts the number of a text to kilograms by its unit:
\* milligram divides by 1,000,000, gram by 1,000, kilogram and no unit leave it,
\* ton multiplies by 1,000.
C5_WeightConvertedByUnit ==
  (call.fn = "normalizeWeightToKg" /\ ret /= NoRet) =>
    ret = Num(RatMul(call.tok.v, Rat(call.unit.n, call.unit.d)))

\* C7: compareText is unresolved with 'Beide fehlen' when both sides are absent,
\* unresolved naming the missing side when one is; when both are present it is a
\* match if they are the same text up to case and white space, and otherwise a
\* mismatch whose comment includes both raw values.
C7_CompareTextVerdicts ==
  (call.fn = "compareText" /\ ret /= NoRet) =>
    IF call.excel.base = 0 /\ call.web.base = 0 THEN ret = Verdict("ORANGE", StrBeideFehlen)
    ELSE IF call.excel.base = 0 THEN ret = Verdict("ORANGE", StrExcelFehlt)
    ELSE IF call.web.base = 0 THEN ret = Verdict("ORANGE", StrWebFehlt)
    ELSE IF call.excel.base = call.web.base THEN ret.status = "GREEN"
    ELSE /\ ret.status = "RED"
         /\ Contains(ret.comment, call.excel.v.s)
         /\ Contains(ret.comment, call.web.v.s)

\* a side of a dimension comparison is absent when its three components are
SideAbsent(dims) == \A k \in 1..3 : dims[k] = Null

\* C9: compareDimensions is unresolved when a side has no component at all; when
\* each side has a component (0 counts as one) it is a match exactly if L, B and H
\* are present on both sides and equal, and a mismatch otherwise.
C9_DimensionsAbsence ==
  (call.fn = "compareDimensions" /\ ret /= NoRet) =>
    IF SideAbsent(call.excelDims) \/ SideAbsent(call.webDims) THEN ret.status = "ORANGE"
    ELSE IF \A k \in 1..3 : call.excelDims[k] /= Null /\ call.excelDims[k] = call.webDims[k]
         THEN ret.status = "GREEN"
         ELSE ret.status = "RED"

=============================================================================
